---- MODULE Spec2Model ----
(***************************************************************************)
(* Model of the Buddy voice assistant: the session loop of main.py         *)
(* (VoiceAssistant), the skill router (SkillRouter), the chat fallback     *)
(* chain (LLMRouter) and the conversation store (ConversationMemory).      *)
(* Strings are sequences of one-character strings, so that lower-casing,   *)
(* substring tests and stripping are computed the way Python computes      *)
(* them.                                                                   *)
(***************************************************************************)
EXTENDS Integers, Sequences, FiniteSets, TLC

\* HealthMonitor: the crashes one run logs, the seconds the clock runs to, and
\* the warnings the watchdog is let write
MaxLogged == 6
MaxClock == 35
MaxWarnings == 1

\* HealthMonitor.__init__ defaults (seconds) and the test of log_crash
check_interval == 5
timeout == 30
CrashLimit == 5

\* AudioManager: the chunks the queue is let grow to, and the calls of
\* start_recording in one run
MaxChunks == 3
MaxStarts == 2

\* ConversationMemory under concurrent callers: the rows the table holds at
\* most, and the last tick of the clock
MaxRows == 3
MaxTime == 1

(***************************************************************************)
(* Bounds of the model.                                                    *)
(***************************************************************************)
\* most rows the conversation table holds: a chat call that could exceed it is not started
MaxStore == 2
\* most crashes the loop recovers from in one run of the model
MaxCrashes == 1
\* listen_with_vad, scaled down: the clock counts units of which max_duration
\* has MaxDuration, the timeout of get_audio_chunk has ChunkTimeout, and the
\* two thresholds of lines 86-87 are this many chunks
MaxDuration == 4
DefaultTimeout == 3
ChunkTimeout == 1
silence_threshold == 2
min_speech_threshold == 2

(***************************************************************************)
(* Text: Python str operations.                                            *)
(***************************************************************************)
UpperCase == <<"A", "B", "C", "D", "E", "F", "G", "H", "I", "J", "K", "L", "M",
               "N", "O", "P", "Q", "R", "S", "T", "U", "V", "W", "X", "Y", "Z">>
LowerCase == <<"a", "b", "c", "d", "e", "f", "g", "h", "i", "j", "k", "l", "m",
               "n", "o", "p", "q", "r", "s", "t", "u", "v", "w", "x", "y", "z">>

\* str.lower() on the upper-case letters
ToLower ==
    [c \in {UpperCase[i] : i \in 1..Len(UpperCase)} |->
        LowerCase[CHOOSE i \in 1..Len(UpperCase) : UpperCase[i] = c]]

\* str.lower() on one character
LowerChar(c) == IF c \in DOMAIN ToLower THEN ToLower[c] ELSE c

\* str.lower()
lower(t) == [i \in 1..Len(t) |-> LowerChar(t[i])]

\* Python's `k in t` on strings
IsSubstring(k, t) ==
    \E i \in 0..(Len(t) - Len(k)) : SubSeq(t, i + 1, i + Len(k)) = k

\* str.endswith
endswith(t, c) == Len(t) > 0 /\ t[Len(t)] = c

Whitespace == {" ", "\n", "\t"}

RECURSIVE lstrip(_)
lstrip(t) == IF t # <<>> /\ Head(t) \in Whitespace THEN lstrip(Tail(t)) ELSE t

RECURSIVE rstrip(_)
rstrip(t) ==
    IF t # <<>> /\ t[Len(t)] \in Whitespace THEN rstrip(SubSeq(t, 1, Len(t) - 1)) ELSE t

\* str.strip()
strip(t) == rstrip(lstrip(t))

\* str.replace(c, '')
remove(t, c) == SelectSeq(t, LAMBDA x : x # c)

(***************************************************************************)
(* Program constants.                                                      *)
(***************************************************************************)
\* main.py:144, in hundredths: `confidence < 0.4`
ConfidenceFloor == 40

\* main.py:40-44
FOLLOWUP_PHRASES == {
    <<"w", "h", "a", "t", " ", "w", "o", "u", "l", "d", " ", "y", "o", "u", " ", "l", "i", "k", "e">>,
    <<"w", "h", "a", "t", " ", "s", "h", "o", "u", "l", "d", " ", "i">>,
    <<"w", "o", "u", "l", "d", " ", "y", "o", "u", " ", "l", "i", "k", "e", " ", "m", "e", " ", "t", "o">>,
    <<"a", "n", "y", "t", "h", "i", "n", "g", " ", "e", "l", "s", "e">>,
    <<"w", "h", "a", "t", " ", "e", "l", "s", "e">>,
    <<"t", "e", "l", "l", " ", "m", "e", " ", "m", "o", "r", "e">>,
    <<"w", "h", "i", "c", "h", " ", "o", "n", "e">>,
    <<"p", "l", "e", "a", "s", "e", " ", "s", "p", "e", "c", "i", "f", "y">>,
    <<"c", "a", "n", " ", "y", "o", "u", " ", "c", "l", "a", "r", "i", "f", "y">> }

\* llm_router.py:187
Apology ==
    <<"A", "l", "l", " ", "m", "y", " ", "b", "r", "a", "i", "n", " ", "c", "o", "n", "n", "e",
      "c", "t", "i", "o", "n", "s", " ", "a", "r", "e", " ", "d", "o", "w", "n", ".", " ", "P",
      "l", "e", "a", "s", "e", " ", "c", "h", "e", "c", "k", " ", "y", "o", "u", "r", " ", "i",
      "n", "t", "e", "r", "n", "e", "t", " ", "a", "n", "d", " ", "A", "P", "I", " ", "k", "e",
      "y", "s", ".">>

\* LLMRouter(prefer_local=True), as main.py:72 constructs it
prefer_local == TRUE

\* the fixed order of the chain in LLMRouter.chat
Backends == <<"ollama", "lmstudio", "groq", "nvidia", "openrouter", "gemini">>
Online == {"groq", "nvidia", "openrouter", "gemini"}

\* ConversationMemory defines add, add_exchange, get_recent, clear and __len__
\* only: the get_summary_context that _chat_gemini calls is not a method of it
MemoryMethods == {"add", "add_exchange", "get_recent", "clear", "__len__"}

(***************************************************************************)
(* Values the environment supplies.                                        *)
(***************************************************************************)
\* "remind me in 5 minutes to check the oven"
RemindMe == <<
    "r", "e", "m", "i", "n", "d", " ", "m", "e", " ", "i", "n", " ", "5", " ", "m", "i",
    "n", "u", "t", "e", "s", " ", "t", "o", " ", "c", "h", "e", "c", "k", " ", "t", "h",
    "e", " ", "o", "v", "e", "n" >>

\* what the transcriber hears: "", "Google the time", and the reminder
\* request, which holds no keyword of the time or web skill
Transcripts == {
    <<>>,
    <<"G", "o", "o", "g", "l", "e", " ", "t", "h", "e", " ", "t", "i", "m", "e">>,
    RemindMe }

\* transcript confidences, in hundredths
Confidences == {39, 40}

\* texts a chat backend answers: "", "Which one?"
Replies == {
    <<>>,
    <<"W", "h", "i", "c", "h", " ", "o", "n", "e", "?">> }

\* a Python value of type Optional[Union[str, SkillResponse]]
None == [kind |-> "None", text |-> <<>>, continue_listening |-> FALSE]
Str(t) == [kind |-> "str", text |-> t, continue_listening |-> FALSE]
SkillResponse(t, c) == [kind |-> "SkillResponse", text |-> t, continue_listening |-> c]

\* what one call of a backend's engine does
BackendOutcomes ==
    {[kind |-> "raise", text |-> <<>>], [kind |-> "None", text |-> <<>>]}
    \cup {[kind |-> "text", text |-> t] : t \in Replies}

\* what a skill's handle() does: raise, None, "", "14:32", "Anything Else",
\* SkillResponse("Which song?", False), SkillResponse("Done", True)
HandleOutcomes == {
    [kind |-> "raise", text |-> <<>>, continue_listening |-> FALSE],
    None,
    Str(<<>>),
    Str(<<"1", "4", ":", "3", "2">>),
    Str(<<"A", "n", "y", "t", "h", "i", "n", "g", " ", "E", "l", "s", "e">>),
    SkillResponse(<<"W", "h", "i", "c", "h", " ", "s", "o", "n", "g", "?">>, FALSE),
    SkillResponse(<<"D", "o", "n", "e">>, TRUE) }

\* skills as load_skills registers them: `base` says the class inherits
\* BaseSkill (and so has matches, name and description)
TimeSkill ==
    [name |-> <<"t", "i", "m", "e">>, base |-> TRUE,
     keywords |-> {<<"t", "i", "m", "e">>}]
WebSkill ==
    [name |-> <<"w", "e", "b">>, base |-> TRUE,
     keywords |-> {<<"g", "o", "o", "g", "l", "e">>, <<"s", "e", "a", "r", "c", "h">>,
                   <<"b", "r", "o", "w", "s", "e">>, <<"l", "o", "o", "k", " ", "u", "p">>}]
ReminderSkill ==
    [name |-> <<"r", "e", "m", "i", "n", "d", "e", "r">>, base |-> FALSE,
     keywords |-> {<<"r", "e", "m", "i", "n", "d">>, <<"a", "l", "a", "r", "m">>,
                   <<"t", "i", "m", "e", "r">>, <<"a", "l", "e", "r", "t">>}]

\* installations: the registry load_skills produced, and the online backends
\* that have an API key and whose client constructor succeeds
Installations == {
    [skills |-> <<>>, keys |-> Online],
    [skills |-> <<TimeSkill, WebSkill>>, keys |-> {"groq", "openrouter"}],
    [skills |-> <<WebSkill, TimeSkill>>, keys |-> {"gemini"}],
    [skills |-> <<TimeSkill, WebSkill, ReminderSkill>>, keys |-> {}] }

\* raw answers of the classifier model: "time", " Time\n", "\"web\"", "web.",
\* "general", "music"
ClassifierAnswers == {
    <<"t", "i", "m", "e">>,
    <<" ", "T", "i", "m", "e", "\n">>,
    <<"\"", "w", "e", "b", "\"">>,
    <<"w", "e", "b", ".">>,
    <<"g", "e", "n", "e", "r", "a", "l">>,
    <<"m", "u", "s", "i", "c">> }

General == <<"g", "e", "n", "e", "r", "a", "l">>

(***************************************************************************)
(* State.                                                                  *)
(***************************************************************************)
VARIABLES
    state,              \* VoiceAssistant.state
    pc,                 \* where the thread running VoiceAssistant.run stands
    _running,           \* VoiceAssistant._running
    _wake_triggered,    \* VoiceAssistant._wake_triggered
    _crash_count,       \* HealthMonitor._crash_count
    text,               \* _process_speech: text
    confidence,         \* _process_speech: confidence, in hundredths
    final_text,         \* _process_speech: final_text
    should_continue,    \* _process_speech: should_continue
    response,           \* LLMRouter.chat: response
    skills,             \* SkillRouter.skills, in insertion order
    keys,               \* the online backends that are configured
    clients,            \* the online backends whose client object exists
    _ollama_available,  \* LLMRouter._ollama_available: "None", "True", "False"
    _lmstudio_available,\* LLMRouter._lmstudio_available
    memory,             \* the rows of the messages table, in insertion order
    exceptions,         \* history: exceptions raised inside _process_state so far
    turn,               \* history: what this iteration of the loop did
    route_log,          \* history: what the call of SkillRouter.route did
    tried,              \* history: the backends the chat call has invoked, in order
    last_out,           \* history: what the backend invoked last did
    chat_returned,      \* history: what the call of LLMRouter.chat returned
    elapsed,            \* listen_with_vad: time.time() - start_time, in clock units
    speech_samples,     \* listen_with_vad: speech_samples
    silence_samples,    \* listen_with_vad: silence_samples
    has_speech,         \* listen_with_vad: has_speech
    _audio_buffer,      \* SpeechToText._audio_buffer: the chunks of the window, as classified
    stamps,             \* the timestamp column of the messages table, by rowid
    _lock,              \* ConversationMemory._lock: the thread holding it
    calls,              \* per thread: its call of a ConversationMemory method
    db,                 \* the database file, and whether __init__ has run on it
    audio_queue,        \* AudioManager.audio_queue
    is_recording,       \* AudioManager.is_recording
    _stream,            \* AudioManager._stream
    device,             \* the input streams open on the audio device, and the last stream call
    callback,           \* the audio thread, inside _audio_callback or not
    recorder,           \* the thread that calls start_recording and stop_recording
    clock,              \* time.time(), in ticks
    last_heartbeat,     \* HealthMonitor.last_heartbeat
    warnings,           \* the "No heartbeat" entries the watchdog has logged
    streak,             \* crashes since the last pass of the loop that did not crash
    slept               \* whether the last log_crash slept

vars == <<state, pc, _running, _wake_triggered, _crash_count, text, confidence,
          final_text, should_continue, response, skills, keys, clients,
          _ollama_available, _lmstudio_available, memory, exceptions, turn,
          route_log, tried, last_out, chat_returned, elapsed, speech_samples,
          silence_samples, has_speech, _audio_buffer, stamps, _lock, calls, db, audio_queue,
          is_recording, _stream, device, callback, recorder, clock, last_heartbeat,
          warnings, streak, slept>>

ctl == <<_running, _wake_triggered>>
transcript == <<text, confidence>>
answer == <<final_text, should_continue>>
config == <<skills, keys>>
llm == <<clients, _ollama_available, _lmstudio_available>>
chat_hist == <<tried, last_out, chat_returned>>
vad == <<elapsed, speech_samples, silence_samples, has_speech, _audio_buffer>>
store == <<stamps, _lock, calls, db>>
audio == <<audio_queue, is_recording, _stream, device, callback, recorder>>
health == <<clock, last_heartbeat, warnings, streak, slept>>
others == <<audio, health>>
session == <<state, pc, ctl, _crash_count, transcript, answer, response, config, llm,
             exceptions, turn, route_log, chat_hist, vad, others>>

States == {"IDLE", "WAKE", "LISTENING", "PROCESSING", "SPEAKING"}

NewTurn ==
    [transcribed |-> FALSE, rejected |-> FALSE, routed |-> FALSE, chatted |-> FALSE,
     spoke |-> FALSE, wrote |-> FALSE, polled |-> "-", followup |-> FALSE]

NoRoute ==
    [called |-> FALSE, text |-> <<>>, raised |-> FALSE, result |-> None,
     keyword |-> 0, invoked |-> <<>>, classified |-> FALSE, handled |-> "-"]

NoOut == [kind |-> "-", text |-> <<>>]

\* a database file that sqlite can use, opened by __init__
Sound == [file |-> "ok", open |-> TRUE]

\* the threads that call ConversationMemory
Threads == {"t1", "t2"}

\* a thread that is in no call of ConversationMemory; after get_recent the
\* record keeps what the call returned
NoCall ==
    [op |-> "-", pc |-> "done", msgs |-> <<>>, stored |-> <<>>, n |-> 0,
     raised |-> FALSE, result |-> <<>>]

\* listen_with_vad before its first call
NoWindow ==
    /\ elapsed = 0
    /\ speech_samples = 0
    /\ silence_samples = 0
    /\ has_speech = FALSE
    /\ _audio_buffer = <<>>

\* between two windows: the locals do not exist, and _audio_buffer is empty
\* or holds what an earlier window that heard no speech left in it
LeftWindow ==
    /\ elapsed = 0
    /\ speech_samples = 0
    /\ silence_samples = 0
    /\ has_speech = FALSE
    /\ _audio_buffer \in {<<>>, <<"silence">>}

\* a thread that is in no method of AudioManager
Outside == [pc |-> "-", chunk |-> [call |-> 0, busy |-> FALSE]]

\* AudioManager.__init__, lines 20-26
NoAudio ==
    /\ audio_queue = <<>>
    /\ is_recording = FALSE
    /\ _stream = "None"
    /\ device = [open |-> 0, call |-> "-", result |-> "-"]
    /\ callback = Outside
    /\ recorder = [pc |-> "-", calls |-> 0, after_stop |-> FALSE]

\* the components as initialize() leaves them
Fresh ==
    /\ _wake_triggered = FALSE
    /\ _crash_count = 0
    /\ text = <<>>
    /\ confidence = 0
    /\ final_text = <<>>
    /\ should_continue = FALSE
    /\ response = None
    /\ \E inst \in Installations :
          /\ skills = inst.skills
          /\ keys = inst.keys
    /\ clients = {}
    /\ _ollama_available = "None"
    /\ _lmstudio_available = "None"
    /\ memory = <<>>
    /\ exceptions = 0
    /\ turn = NewTurn
    /\ route_log = NoRoute
    /\ tried = <<>>
    /\ last_out = NoOut
    /\ chat_returned = None
    /\ stamps = <<>>
    /\ _lock = "None"
    /\ calls = [t \in Threads |-> NoCall]
    /\ NoAudio
    /\ clock = 0
    /\ last_heartbeat = 0
    /\ warnings = 0
    /\ streak = 0
    /\ slept = FALSE

Init ==
    /\ state = "IDLE"
    /\ pc = "run"
    /\ _running = FALSE
    /\ Fresh
    /\ NoWindow
    /\ db = Sound

\* the frame of listen_with_vad is discarded once its result is handed on;
\* _audio_buffer is not read again before line 82 empties it
CloseWindow ==
    /\ elapsed' = 0
    /\ speech_samples' = 0
    /\ silence_samples' = 0
    /\ has_speech' = FALSE
    /\ _audio_buffer' = <<>>

\* a new call of _process_state: the locals of the previous call are gone and
\* the history of the iteration starts as `t`
Reset(t) ==
    /\ text' = <<>>
    /\ confidence' = 0
    /\ final_text' = <<>>
    /\ should_continue' = FALSE
    /\ response' = None
    /\ turn' = t
    /\ route_log' = NoRoute
    /\ tried' = <<>>
    /\ last_out' = NoOut
    /\ chat_returned' = None

NewIteration == Reset(NewTurn)

(***************************************************************************)
(* ConversationMemory.                                                     *)
(***************************************************************************)
\* add: the INSERT either commits (ok) or raises, and the error is swallowed
add(rows, role, content, ok) ==
    IF ok THEN Append(rows, [role |-> role, content |-> content]) ELSE rows

\* add_exchange: two calls of add, each with its own INSERT
add_exchange(rows, user_msg, assistant_msg, ok1, ok2) ==
    add(add(rows, "user", user_msg, ok1), "assistant", assistant_msg, ok2)

\* max_messages as LLMRouter constructs its memory (llm_router.py:29)
max_messages == 20

\* datetime.now() of line 83, in ticks: not before a timestamp already in the
\* table, and equal to it when both are taken within one tick of the clock
now(st) == {ts \in 0..MaxTime : \A i \in 1..Len(st) : st[i] <= ts}

\* the ways of listing the set S
Orders(S) ==
    {f \in [1..Cardinality(S) -> S] :
        \A i, j \in 1..Cardinality(S) : i # j => f[i] # f[j]}

\* get_recent, lines 99-123, on a table with rows `rows` and timestamp column
\* `st`: the inner SELECT takes the first `limit` rows of a listing by
\* descending timestamp, the outer one lists them by ascending timestamp;
\* neither ORDER BY has a second key, so rows of equal timestamp come in any
\* order. The result is the set of lists the query may return.
get_recent(rows, st, n) ==
    LET limit == IF n # 0 THEN n ELSE max_messages
        k == IF limit < Len(rows) THEN limit ELSE Len(rows)
        Desc == {f \in Orders(1..Len(rows)) :
                    \A i, j \in 1..Len(rows) : i < j => st[f[i]] >= st[f[j]]}
        Asc(S) == {g \in Orders(S) :
                    \A i, j \in 1..k : i < j => st[g[i]] <= st[g[j]]}
    IN  UNION {{[i \in 1..k |-> rows[g[i]]] : g \in Asc({f[i] : i \in 1..k})}
                : f \in Desc}

(***************************************************************************)
(* SkillRouter.                                                            *)
(***************************************************************************)
\* matches without the two lower() calls: the comparison is case-sensitive
matches_case_sensitive(skill, t) ==
    \E kw \in skill.keywords : IsSubstring(kw, t)

\* BaseSkill.matches
matches(skill, t) ==
    \E kw \in skill.keywords : IsSubstring(lower(kw), lower(t))

\* SkillRouter._keyword_match: the scan calls skill.matches on every value of
\* the registry in insertion order; a registered class that does not inherit
\* BaseSkill has no such method and the call raises AttributeError
RECURSIVE KeywordScan(_, _)
KeywordScan(i, t) ==
    IF i > Len(skills) THEN [raised |-> FALSE, idx |-> 0]
    ELSE IF ~skills[i].base THEN [raised |-> TRUE, idx |-> 0]
    ELSE IF matches(skills[i], t) THEN [raised |-> FALSE, idx |-> i]
    ELSE KeywordScan(i + 1, t)

_keyword_match(t) == KeywordScan(1, t)

SkillNames == {skills[i].name : i \in 1..Len(skills)}

\* SkillRouter._llm_classify, lines 158-175: `ans` is what ollama.chat did
\* (raised, or the raw content); the result is a skill name or None
_llm_classify(ans) ==
    IF ans.raised THEN None
    ELSE LET result == strip(remove(remove(lower(strip(ans.raw)), "\""), "'"))
         IN  IF result = General THEN None
             ELSE IF result \in SkillNames THEN Str(result) ELSE None

ClassifierOutcomes ==
    {[raised |-> TRUE, raw |-> <<>>]}
    \cup {[raised |-> FALSE, raw |-> a] : a \in ClassifierAnswers}

\* the value route returns when handle() did `h`: an exception is caught
Handled(h) == IF h.kind = "raise" THEN None ELSE h

RouteLog(t, raised, result, keyword, invoked, classified, handled) ==
    [called |-> TRUE, text |-> t, raised |-> raised, result |-> result,
     keyword |-> keyword, invoked |-> invoked, classified |-> classified,
     handled |-> handled]

\* phase 2 of route, lines 121-133
Classification(t) ==
    IF skills = <<>>
    THEN {RouteLog(t, FALSE, None, 0, <<>>, TRUE, "-")}
    ELSE IF \E i \in 1..Len(skills) : ~skills[i].base
    THEN \* skill.description of line 148 raises AttributeError
         {RouteLog(t, TRUE, None, 0, <<>>, TRUE, "-")}
    ELSE UNION {
        LET c == _llm_classify(ans)
        IN  IF c # None /\ c.text \in SkillNames
            THEN {RouteLog(t, FALSE, Handled(h), 0, <<c.text>>, TRUE, h.kind)
                    : h \in HandleOutcomes}
            ELSE {RouteLog(t, FALSE, None, 0, <<>>, TRUE, "-")}
        : ans \in ClassifierOutcomes }

\* route without the `return` of lines 116-119 taking effect when the handler
\* gave no match: the call goes on to the classification phase
route_falls_through(t) ==
    LET km == _keyword_match(t)
    IN  IF km.raised
        THEN {RouteLog(t, TRUE, None, 0, <<>>, FALSE, "-")}
        ELSE IF km.idx # 0
        THEN UNION {
                IF Handled(h) = None
                THEN {[c EXCEPT !.keyword = km.idx,
                                !.invoked = <<skills[km.idx].name>> \o c.invoked]
                        : c \in Classification(t)}
                ELSE {RouteLog(t, FALSE, Handled(h), km.idx, <<skills[km.idx].name>>,
                               FALSE, h.kind)}
                : h \in HandleOutcomes}
        ELSE Classification(t)

\* SkillRouter.route: every way one call can go, as a record of what it did
route(t) ==
    LET km == _keyword_match(t)
    IN  IF km.raised
        THEN {RouteLog(t, TRUE, None, 0, <<>>, FALSE, "-")}
        ELSE IF km.idx # 0
        THEN {RouteLog(t, FALSE, Handled(h), km.idx, <<skills[km.idx].name>>, FALSE,
                       h.kind) : h \in HandleOutcomes}
        ELSE Classification(t)

(***************************************************************************)
(* VoiceAssistant: helpers of the session loop.                            *)
(***************************************************************************)
\* VoiceAssistant._transition
_transition(new_state) == state' = new_state

\* HealthMonitor.log_crash
log_crash == _crash_count' = _crash_count + 1

\* the except clause without its _transition(IDLE): the state stays as it was
Recover_keeps_state ==
    /\ log_crash
    /\ UNCHANGED state
    /\ pc' = "loop"
    /\ UNCHANGED _running

\* the `except Exception` clause of VoiceAssistant.run, lines 105-108: the
\* exception of the step is logged, the state is reset and the loop goes on
Recover ==
    /\ log_crash
    /\ _transition("IDLE")
    /\ pc' = "loop"
    /\ UNCHANGED _running

\* a step of _process_state raises (the model stops raising at MaxCrashes)
Raises ==
    /\ _crash_count < MaxCrashes
    /\ exceptions' = exceptions + 1
    /\ Recover

\* the test of line 144 without `not text`
Rejected_confidence_only(t, c) == c < ConfidenceFloor

\* main.py:144, `not text or confidence < 0.4`
Rejected(t, c) == t = <<>> \/ c < ConfidenceFloor

\* the test of line 164 as if a SkillResponse were empty: only a non-empty
\* str keeps the turn from the chat
Truthy_only_str(r) == r.kind = "str" /\ r.text # <<>>

\* `not response_text` is false for every SkillResponse (a dataclass without
\* __bool__ or __len__) and for every non-empty str
Truthy(r) == r.kind = "SkillResponse" \/ (r.kind = "str" /\ r.text # <<>>)

\* _should_continue_listening without the lower() of line 199
_should_continue_listening_as_typed(t) ==
    \/ endswith(t, "?")
    \/ \E p \in FOLLOWUP_PHRASES : IsSubstring(p, t)

\* VoiceAssistant._should_continue_listening
_should_continue_listening(t) ==
    \/ endswith(t, "?")
    \/ \E p \in FOLLOWUP_PHRASES : IsSubstring(p, lower(t))

\* lines 168-180 without the _transition(SPEAKING) of line 180
Respond_without_speaking(r) ==
    /\ final_text' = r.text
    /\ should_continue' =
          IF r.kind = "SkillResponse" /\ r.continue_listening
          THEN TRUE
          ELSE _should_continue_listening(r.text)
    /\ UNCHANGED state
    /\ pc' = "speak"

\* _process_speech, lines 168-180: the response becomes final_text and
\* should_continue, and the session goes to SPEAKING
Respond(r) ==
    /\ final_text' = r.text
    /\ should_continue' =
          IF r.kind = "SkillResponse" /\ r.continue_listening
          THEN TRUE
          ELSE _should_continue_listening(r.text)
    /\ _transition("SPEAKING")
    /\ pc' = "speak"

(***************************************************************************)
(* VoiceAssistant: the steps of the loop thread.                           *)
(***************************************************************************)
\* run, lines 97-98
run ==
    /\ pc = "run"
    /\ _running' = TRUE
    /\ state' = "IDLE"
    /\ pc' = "loop"
    /\ UNCHANGED <<_wake_triggered, _crash_count, transcript, answer, response, config,
                   llm, memory, exceptions, turn, route_log, chat_hist>>
    /\ UNCHANGED <<vad, store, others>>

\* lines 117-119: the condition under which an idle pass wakes the session
WakeUp(chunk, detected) == chunk /\ (detected \/ _wake_triggered)

\* _process_state in IDLE, lines 115-121: `chunk` says a chunk arrived within
\* the timeout, `detected` what the wake detector answered for it
\* (the detector is asked only when there is a chunk)
process_idle ==
    /\ pc = "loop" /\ _running /\ state = "IDLE"
    /\ \E chunk \in BOOLEAN, detected \in BOOLEAN :
          /\ Reset([NewTurn EXCEPT !.polled = IF chunk THEN "chunk" ELSE "None"])
          /\ IF WakeUp(chunk, detected)
             THEN /\ _wake_triggered' = FALSE
                  /\ _transition("WAKE")
             ELSE UNCHANGED <<_wake_triggered, state>>
    /\ UNCHANGED <<pc, _running, _crash_count, config, llm, memory, exceptions>>
    /\ UNCHANGED <<vad, store, others>>

\* the wake detector raises on the chunk
process_idle_raises ==
    /\ pc = "loop" /\ _running /\ state = "IDLE"
    /\ NewIteration
    /\ Raises
    /\ UNCHANGED <<_wake_triggered, config, llm, memory>>
    /\ UNCHANGED <<vad, store, others>>

\* _process_state in WAKE, lines 123-125
process_wake ==
    /\ pc = "loop" /\ _running /\ state = "WAKE"
    /\ NewIteration
    /\ _transition("LISTENING")
    /\ UNCHANGED <<pc, ctl, _crash_count, config, llm, memory, exceptions>>
    /\ UNCHANGED <<vad, store, others>>

\* _play_ding raises
process_wake_raises ==
    /\ pc = "loop" /\ _running /\ state = "WAKE"
    /\ NewIteration
    /\ Raises
    /\ UNCHANGED <<_wake_triggered, config, llm, memory>>
    /\ UNCHANGED <<vad, store, others>>

\* _process_state in LISTENING, lines 127-133: `heard` says listen_with_vad
\* returned audio bytes
process_listening ==
    /\ pc = "loop" /\ _running /\ state = "LISTENING"
    /\ NewIteration
    /\ \E heard \in BOOLEAN :
          IF heard
          THEN /\ _transition("PROCESSING")
               /\ pc' = "transcribe"
          ELSE /\ _transition("IDLE")
               /\ UNCHANGED pc
    /\ UNCHANGED <<ctl, _crash_count, config, llm, memory, exceptions>>
    /\ UNCHANGED <<vad, store, others>>

\* listen_with_vad raises
process_listening_raises ==
    /\ pc = "loop" /\ _running /\ state = "LISTENING"
    /\ NewIteration
    /\ Raises
    /\ UNCHANGED <<_wake_triggered, config, llm, memory>>
    /\ UNCHANGED <<vad, store, others>>

\* _process_speech, lines 141-146
transcribe ==
    /\ pc = "transcribe"
    /\ \E t \in Transcripts, c \in Confidences :
          /\ text' = t
          /\ confidence' = c
          /\ IF Rejected(t, c)
             THEN /\ _transition("IDLE")
                  /\ pc' = "loop"
                  /\ turn' = [turn EXCEPT !.transcribed = TRUE, !.rejected = TRUE]
             ELSE /\ pc' = "route"
                  /\ turn' = [turn EXCEPT !.transcribed = TRUE]
                  /\ UNCHANGED state
    /\ UNCHANGED <<ctl, _crash_count, answer, response, config, llm, memory,
                   exceptions, route_log, chat_hist>>
    /\ CloseWindow
    /\ UNCHANGED <<store, others>>

\* stt.transcribe raises
transcribe_raises ==
    /\ pc = "transcribe"
    /\ Raises
    /\ UNCHANGED <<_wake_triggered, transcript, answer, response, config, llm, memory,
                   turn, route_log, chat_hist>>
    /\ CloseWindow
    /\ UNCHANGED <<store, others>>

\* _process_speech, lines 159-166, then 168-180 when a skill answered
route_step ==
    /\ pc = "route"
    /\ \E r \in route(text) :
          /\ ~r.raised
          /\ route_log' = r
          /\ IF Truthy(r.result)
             THEN Respond(r.result)
             ELSE /\ pc' = "chat"
                  /\ UNCHANGED <<state, answer>>
    /\ turn' = [turn EXCEPT !.routed = TRUE]
    /\ UNCHANGED <<ctl, _crash_count, transcript, response, config, llm, memory,
                   exceptions, chat_hist>>
    /\ UNCHANGED <<vad, store, others>>

\* route raises, and the exception leaves _process_speech
route_raises ==
    /\ pc = "route"
    /\ \E r \in route(text) :
          /\ r.raised
          /\ route_log' = r
    /\ Raises
    /\ turn' = [turn EXCEPT !.routed = TRUE]
    /\ UNCHANGED <<_wake_triggered, transcript, answer, response, config, llm, memory,
                   chat_hist>>
    /\ UNCHANGED <<vad, store, others>>

(***************************************************************************)
(* LLMRouter.chat.                                                         *)
(***************************************************************************)
\* _check_ollama and _check_lmstudio without their first two lines: the
\* backend is probed at every call, whatever the cache holds
_check_uncached(cache, probe) == IF probe THEN "True" ELSE "False"

\* _check_ollama and _check_lmstudio: the cached answer, or the answer of a
\* first probe, which is then cached
_check(cache, probe) ==
    IF cache # "None" THEN cache ELSE IF probe THEN "True" ELSE "False"

\* the Optional[str] a _chat_* method returns when its engine did `out`
Result(out) == IF out.kind = "text" THEN Str(out.text) ELSE None

\* the state of one call of chat: its local `response`, the two availability
\* caches, and the history of the engines it invoked
ChainStart ==
    [response |-> None, ollama |-> _ollama_available, lmstudio |-> _lmstudio_available,
     tried |-> <<>>, last_out |-> NoOut]

Invoke(s, b, out) ==
    [s EXCEPT !.response = Result(out), !.tried = Append(s.tried, b), !.last_out = out]

\* chat, lines 162-163, with _check_ollama and _chat_ollama
_chat_ollama(s, probe, out) ==
    IF prefer_local
    THEN LET avail == _check(s.ollama, probe)
         IN  IF avail = "True"
             THEN [Invoke(s, "ollama", out) EXCEPT
                     !.ollama = IF out.kind = "raise" THEN "False" ELSE avail]
             ELSE [s EXCEPT !.ollama = avail]
    ELSE s

\* chat, lines 166-167, with _check_lmstudio and _chat_lmstudio
_chat_lmstudio(s, probe, out) ==
    IF s.response = None /\ prefer_local
    THEN LET avail == _check(s.lmstudio, probe)
         IN  IF avail = "True"
             THEN [Invoke(s, "lmstudio", out) EXCEPT
                     !.lmstudio = IF out.kind = "raise" THEN "False" ELSE avail]
             ELSE [s EXCEPT !.lmstudio = avail]
    ELSE s

\* `if response is None: response = self._chat_<b>(user_message)` for an
\* online backend, whose method starts `if not self._<b>_client: return None`
OnlineStep(s, b, cl, out) ==
    IF s.response = None /\ b \in cl THEN Invoke(s, b, out) ELSE s

\* chat, lines 170-171, with _chat_groq
_chat_groq(s, cl, out) == OnlineStep(s, "groq", cl, out)

\* chat, lines 174-175, with _chat_nvidia
_chat_nvidia(s, cl, out) == OnlineStep(s, "nvidia", cl, out)

\* chat, lines 178-179, with _chat_openrouter
_chat_openrouter(s, cl, out) == OnlineStep(s, "openrouter", cl, out)

\* chat, lines 182-183, with _chat_gemini: inside its try the method first
\* calls self.memory.get_summary_context(), which ConversationMemory does not
\* define, so the AttributeError is what the call does whatever the engine
\* would have answered
_chat_gemini(s, cl, out) ==
    OnlineStep(s, "gemini", cl,
               IF "get_summary_context" \in MemoryMethods
               THEN out
               ELSE [kind |-> "raise", text |-> <<>>])

\* the step of the chain at position i of Backends
ChainStep(i, s, cl, probe, out) ==
    CASE i = 1 -> _chat_ollama(s, probe, out)
      [] i = 2 -> _chat_lmstudio(s, probe, out)
      [] i = 3 -> _chat_groq(s, cl, out)
      [] i = 4 -> _chat_nvidia(s, cl, out)
      [] i = 5 -> _chat_openrouter(s, cl, out)
      [] i = 6 -> _chat_gemini(s, cl, out)

\* the probes the environment can answer at position i: a local backend is
\* probed only while its cache is None
Probes(i, s) ==
    IF (i = 1 /\ s.ollama = "None") \/ (i = 2 /\ s.lmstudio = "None" /\ s.response = None)
    THEN BOOLEAN
    ELSE {TRUE}

\* the outcomes the environment can give at position i: those of the engine,
\* when the step changes with them, and otherwise none
Outcomes(i, s, cl, probe) ==
    IF \A out \in BackendOutcomes : ChainStep(i, s, cl, probe, out) = ChainStep(i, s, cl, probe, NoOut)
    THEN {NoOut}
    ELSE BackendOutcomes

\* chat, lines 161-183: every way the chain can go from position i on
RECURSIVE Chain(_, _, _)
Chain(i, s, cl) ==
    IF i > Len(Backends) THEN {s}
    ELSE UNION {
            UNION {Chain(i + 1, ChainStep(i, s, cl, probe, out), cl)
                     : out \in Outcomes(i, s, cl, probe)}
            : probe \in Probes(i, s)}

\* LLMRouter.__init__, line 28
max_history == 10

\* the first element of every message list, line 148
SystemMessage == [role |-> "system", content |-> <<"SYSTEM_PROMPT">>]

\* the timestamp columns a table filled by one thread can have: datetime.now()
\* of each INSERT is not before that of the row before it
Stamps(rows) ==
    {st \in [1..Len(rows) -> 0..MaxTime] :
        \A i, j \in 1..Len(rows) : i < j => st[i] <= st[j]}

\* _build_messages, lines 146-154: the lists it may return on a table `rows`
_build_messages(rows, user_message) ==
    UNION {{<<SystemMessage>> \o h \o <<[role |-> "user", content |-> user_message]>>
              : h \in get_recent(rows, st, max_history)}
            : st \in Stamps(rows)}

\* the message lists the method of backend `b` may hand to its engine: lines
\* 198, 213, 224, 237 and 250 take the list of _build_messages; _chat_gemini
\* (lines 261-274) builds none, it formats one prompt string from
\* get_summary_context, which raises before the engine is called
Handed(b, rows, user_message) ==
    IF b = "gemini" THEN {} ELSE _build_messages(rows, user_message)

\* what chat returns for the value of `response` after the chain, lines 186-191
Returned(resp) == IF resp = None THEN Str(Apology) ELSE resp

\* _process_speech, line 166, the whole of LLMRouter.chat, then lines 168-180:
\* _configure_online creates the client of every configured backend; `ok1`
\* and `ok2` say whether the INSERT of each add of the exchange committed
chat ==
    /\ pc = "chat"
    /\ Len(memory) + 2 <= MaxStore
    /\ clients' = clients \cup keys
    /\ \E s \in Chain(1, ChainStart, clients') :
          /\ response' = s.response
          /\ _ollama_available' = s.ollama
          /\ _lmstudio_available' = s.lmstudio
          /\ tried' = s.tried
          /\ last_out' = s.last_out
          /\ chat_returned' = Returned(s.response)
          /\ \E ok1 \in BOOLEAN, ok2 \in BOOLEAN :
                memory' = IF s.response = None
                          THEN memory
                          ELSE add_exchange(memory, text, s.response.text, ok1, ok2)
          /\ Respond(Returned(s.response))
    /\ turn' = [turn EXCEPT !.chatted = TRUE, !.wrote = (memory' # memory)]
    /\ route_log' = NoRoute
    /\ UNCHANGED <<ctl, _crash_count, transcript, config, exceptions>>
    /\ UNCHANGED <<vad, store, others>>

\* TextToSpeech.speak_streaming, tts.py:152-202. `player` is what
\* shutil.which found, `popen` whether the player process started, `synth`
\* whether edge-tts delivered audio (synthesize_streaming catches its own
\* exception and then yields nothing, lines 89-91), `fallback` what pyttsx3
\* did. The fallback of line 202 is reached only from the except clause.
speak_streaming(player, popen, synth, fallback) ==
    IF player = "None"
    THEN IF synth = "audio" THEN "buffered" ELSE "silent"
    ELSE IF popen = "raises"
    THEN IF fallback = "spoken" THEN "fallback" ELSE "raise"
    ELSE IF synth = "audio" THEN "streamed" ELSE "silent"

\* _process_speech, lines 187-193: speak_streaming returns, having played the
\* text by one of its ways or having played nothing
speak ==
    /\ pc = "speak"
    /\ \E player \in {"mpv", "ffplay", "None"}, popen \in {"started", "raises"},
          synth \in {"audio", "fails"}, fallback \in {"spoken", "raises"} :
          LET out == speak_streaming(player, popen, synth, fallback)
          IN  /\ out # "raise"
              /\ turn' = [turn EXCEPT !.spoke = (out # "silent")]
    /\ _transition(IF should_continue THEN "LISTENING" ELSE "IDLE")
    /\ pc' = "loop"
    /\ UNCHANGED <<ctl, _crash_count, transcript, answer, response, config, llm, memory,
                   exceptions, route_log, chat_hist>>
    /\ UNCHANGED <<vad, store, others>>

\* speak_streaming raises out of its fallback
speak_raises ==
    /\ pc = "speak"
    /\ Raises
    /\ UNCHANGED <<_wake_triggered, transcript, answer, response, config, llm, memory,
                   turn, route_log, chat_hist>>
    /\ UNCHANGED <<vad, store, others>>

(***************************************************************************)
(* SpeechToText.listen_with_vad, step by step.                             *)
(***************************************************************************)
\* the loop of line 94 without its deadline
Listening_without_deadline(e) == TRUE

\* the condition of the while loop, line 94
Listening(e) == e < MaxDuration

\* lines 115-117 missing: the buffer is returned whether or not speech was
\* confirmed
Heard_always == TRUE

\* lines 115-120: the window returns audio bytes exactly when speech was
\* confirmed, and None otherwise
Heard == has_speech

\* lines 82-90 without line 82: the buffer of the previous window is kept
OpenWindow_keeps_buffer ==
    /\ elapsed' = 0
    /\ speech_samples' = 0
    /\ silence_samples' = 0
    /\ has_speech' = FALSE
    /\ UNCHANGED _audio_buffer

\* lines 82-90: the buffer is emptied and the locals of the window start
OpenWindow ==
    /\ elapsed' = 0
    /\ speech_samples' = 0
    /\ silence_samples' = 0
    /\ has_speech' = FALSE
    /\ _audio_buffer' = <<>>

\* line 108 without its test: silence counts from the start of the window
Counted_from_start == TRUE

\* line 108: a silence chunk counts once speech was confirmed
Counted == has_speech

\* the response of the turn just spoken is a SkillResponse that asked for
\* continuation (main.py:172-174)
with_followup ==
    /\ turn.spoke
    /\ ~turn.chatted
    /\ route_log.result.kind = "SkillResponse"
    /\ route_log.result.continue_listening

\* _process_state in LISTENING, line 128, and listen_with_vad, lines 79-92;
\* the record of the pass says whether the window follows such a response
listen_start ==
    /\ pc = "loop" /\ _running /\ state = "LISTENING"
    /\ Reset([NewTurn EXCEPT !.followup = with_followup])
    /\ OpenWindow
    /\ pc' = "listen"
    /\ UNCHANGED <<state, ctl, _crash_count, config, llm, memory, exceptions>>
    /\ UNCHANGED <<store, others>>

\* one pass of the loop body, lines 95-113: get_audio_chunk waits `wait`
\* units, at most its timeout, and gives a chunk or (after the whole timeout)
\* None; a chunk is appended to the buffer and classified by the VAD as speech or silence, which takes
\* at least one unit of the clock
listen_iteration ==
    /\ pc = "listen" /\ Listening(elapsed)
    /\ \E chunk \in {"None", "speech", "silence"}, wait \in 0..ChunkTimeout :
          /\ chunk = "None" => wait = ChunkTimeout
          /\ elapsed' = elapsed + wait + (IF chunk = "None" THEN 0 ELSE 1)
          /\ _audio_buffer' = IF chunk = "None" THEN _audio_buffer
                               ELSE Append(_audio_buffer, chunk)
          /\ CASE chunk = "None" ->
                    UNCHANGED <<speech_samples, silence_samples, has_speech, pc>>
               [] chunk = "speech" ->
                    /\ speech_samples' = speech_samples + 1
                    /\ silence_samples' = 0
                    /\ has_speech' = (has_speech \/ speech_samples' >= min_speech_threshold)
                    /\ UNCHANGED pc
               [] chunk = "silence" ->
                    IF Counted
                    THEN /\ silence_samples' = silence_samples + 1
                         /\ pc' = IF silence_samples' >= silence_threshold
                                  THEN "listened" ELSE "listen"
                         /\ UNCHANGED <<speech_samples, has_speech>>
                    ELSE UNCHANGED <<speech_samples, silence_samples, has_speech, pc>>
    /\ UNCHANGED <<state, ctl, _crash_count, transcript, answer, response, config, llm,
                   memory, exceptions, turn, route_log, chat_hist>>
    /\ UNCHANGED <<store, others>>

\* the loop is left (deadline or break); lines 115-120, and main.py:129-133
listen_return ==
    /\ \/ pc = "listened"
       \/ pc = "listen" /\ ~Listening(elapsed)
    /\ IF Heard
       THEN /\ _transition("PROCESSING")
            /\ pc' = "transcribe"
       ELSE /\ _transition("IDLE")
            /\ pc' = "loop"
    /\ UNCHANGED <<ctl, _crash_count, transcript, answer, response, config, llm, memory,
                   exceptions, turn, route_log, chat_hist, vad>>
    /\ UNCHANGED <<store, others>>

\* the VAD model raises on a chunk
listen_raises ==
    /\ pc = "listen" /\ Listening(elapsed)
    /\ Raises
    /\ UNCHANGED <<_wake_triggered, transcript, answer, response, config, llm, memory,
                   turn, route_log, chat_hist, vad>>
    /\ UNCHANGED <<store, others>>

(***************************************************************************)
(* ConversationMemory called from several threads, step by step.           *)
(***************************************************************************)
\* the INSERTs that calls in progress have still to make
RECURSIVE Pending(_)
Pending(T) ==
    IF T = {} THEN 0
    ELSE LET t == CHOOSE x \in T : TRUE
         IN  (IF calls[t].pc # "done" THEN Len(calls[t].msgs) - Len(calls[t].stored) ELSE 0)
             + Pending(T \ {t})

\* ConversationMemory.__init__, lines 18-41, and _init_db, lines 51-72: the
\* CREATE TABLE IF NOT EXISTS runs inside try/except, so on a file sqlite
\* cannot use the error is printed and the file is left as it is
_init_db ==
    /\ ~db.open
    /\ db' = [db EXCEPT !.open = TRUE]
    /\ UNCHANGED <<memory, stamps, _lock, calls, session>>

\* what a statement on the database can do: commit (TRUE) or raise (FALSE);
\* on a file sqlite cannot use every statement raises
Statement == IF db.file = "ok" THEN BOOLEAN ELSE {FALSE}

\* a thread calls add(role, content), line 74
call_add(t) ==
    /\ db.open
    /\ calls[t].pc = "done"
    /\ Len(memory) + Pending(Threads) < MaxRows
    /\ calls' = [calls EXCEPT ![t] =
                   [NoCall EXCEPT !.op = "add", !.pc = "acquire",
                                  !.msgs = <<[role |-> "user", content |-> <<t>>]>>]]
    /\ UNCHANGED <<memory, stamps, _lock, db, session>>

\* a thread calls add_exchange(user_msg, assistant_msg), lines 92-95: the two
\* calls of add follow
call_add_exchange(t) ==
    /\ db.open
    /\ calls[t].pc = "done"
    /\ Len(memory) + Pending(Threads) + 2 <= MaxRows
    /\ calls' = [calls EXCEPT ![t] =
                   [NoCall EXCEPT !.op = "add_exchange", !.pc = "acquire",
                                  !.msgs = <<[role |-> "user", content |-> <<t>>],
                                             [role |-> "assistant", content |-> <<t>>]>>]]
    /\ UNCHANGED <<memory, stamps, _lock, db, session>>

\* a thread calls clear(), line 129
call_clear(t) ==
    /\ db.open
    /\ calls[t].pc = "done"
    /\ calls' = [calls EXCEPT ![t] = [NoCall EXCEPT !.op = "clear", !.pc = "acquire"]]
    /\ UNCHANGED <<memory, stamps, _lock, db, session>>

\* `with self._lock:` of add and clear, lines 76 and 131
acquire(t) ==
    /\ calls[t].pc = "acquire"
    /\ _lock = "None"
    /\ _lock' = t
    /\ calls' = [calls EXCEPT ![t].pc = "locked"]
    /\ UNCHANGED <<memory, stamps, db, session>>

\* add, lines 77-90: the INSERT and its commit take effect (ok), or one of
\* them raises and the except clause prints; either way the lock is released
\* and add returns None. In add_exchange the second add follows the first,
\* and `stored` says what became of the first.
insert(t) ==
    /\ calls[t].pc = "locked"
    /\ calls[t].op \in {"add", "add_exchange"}
    /\ LET c == calls[t]
           msg == c.msgs[Len(c.stored) + 1]
       IN  \E ok \in Statement, ts \in now(stamps) :
              /\ memory' = add(memory, msg.role, msg.content, ok)
              /\ stamps' = IF ok THEN Append(stamps, ts) ELSE stamps
              /\ calls' = [calls EXCEPT ![t] =
                             IF Len(c.stored) + 1 < Len(c.msgs)
                             THEN [c EXCEPT !.stored = Append(c.stored, ok),
                                            !.pc = "acquire"]
                             ELSE NoCall]
    /\ _lock' = "None"
    /\ UNCHANGED <<db, session>>

\* clear, lines 132-138: the DELETE and its commit take effect, or raise and
\* are printed
delete(t) ==
    /\ calls[t].pc = "locked"
    /\ calls[t].op = "clear"
    /\ \E ok \in Statement :
          /\ memory' = IF ok THEN <<>> ELSE memory
          /\ stamps' = IF ok THEN <<>> ELSE stamps
    /\ calls' = [calls EXCEPT ![t] = NoCall]
    /\ _lock' = "None"
    /\ UNCHANGED <<db, session>>

\* get_recent(n), lines 97-127, takes no lock: its SELECT reads the committed
\* rows in one statement, or raises and [] is returned; n = 0 stands for a
\* falsy n (None or 0). Only the value the latest call returned is kept.
call_get_recent(t) ==
    /\ db.open
    /\ calls[t].pc = "done"
    /\ \E n \in 0..(MaxRows - 1), ok \in Statement :
          \E res \in (IF ok THEN get_recent(memory, stamps, n) ELSE {<<>>}) :
             calls' = [u \in Threads |->
                         IF u = t
                         THEN [NoCall EXCEPT !.op = "get_recent", !.n = n,
                                             !.raised = ~ok, !.result = res]
                         ELSE IF calls[u].op = "get_recent" THEN NoCall ELSE calls[u]]
    /\ UNCHANGED <<memory, stamps, _lock, db, session>>

(***************************************************************************)
(* AudioManager: the device's callback thread, the thread that switches    *)
(* recording on and off, the thread that opens and closes the stream, and  *)
(* the consumer of the queue.                                              *)
(***************************************************************************)
\* start_stream without the test of line 39
Started_unchecked == FALSE

\* the test of lines 39 and 54
Started == _stream # "None"

\* start_stream, lines 37-50: nothing when a stream is held; else the
\* InputStream is constructed (which opens the device, or raises) and
\* assigned, and then started (or start() raises, the handle being held)
start_stream ==
    /\ IF Started
       THEN /\ device' = [device EXCEPT !.call = "start_stream", !.result = "returned"]
            /\ UNCHANGED _stream
       ELSE \E out \in {"started", "InputStream raises", "start raises"} :
              /\ _stream' = CASE out = "started" -> "started"
                              [] out = "start raises" -> "open"
                              [] OTHER -> "None"
              /\ device' = [open |-> IF out = "InputStream raises"
                                     THEN device.open ELSE device.open + 1,
                            call |-> "start_stream",
                            result |-> IF out = "started" THEN "returned" ELSE "raised"]
    /\ UNCHANGED <<audio_queue, is_recording, callback, recorder>>
    /\ UNCHANGED <<memory, store, health, state, pc, ctl, _crash_count, transcript, answer,
                   response, config, llm, exceptions, turn, route_log, chat_hist, vad>>

\* stop_stream, lines 52-58: nothing when no stream is held; else stop() and
\* close(), either of which may raise and leave the handle where it is, and
\* then the handle is dropped
stop_stream ==
    /\ IF Started
       THEN \E out \in {"closed", "stop raises", "close raises"} :
              /\ _stream' = CASE out = "closed" -> "None"
                              [] out = "close raises" -> "open"
                              [] OTHER -> _stream
              /\ device' = [open |-> IF out = "closed" THEN device.open - 1
                                     ELSE device.open,
                            call |-> "stop_stream",
                            result |-> IF out = "closed" THEN "returned" ELSE "raised"]
       ELSE /\ device' = [device EXCEPT !.call = "stop_stream", !.result = "returned"]
            /\ UNCHANGED _stream
    /\ UNCHANGED <<audio_queue, is_recording, callback, recorder>>
    /\ UNCHANGED <<memory, store, health, state, pc, ctl, _crash_count, transcript, answer,
                   response, config, llm, exceptions, turn, route_log, chat_hist, vad>>

\* _audio_callback, lines 28-34: a started stream hands a block to the
\* callback, which tests is_recording; the chunk remembers during which call
\* of start_recording it was produced, and whether the session was busy
\* (PROCESSING or SPEAKING) at that moment
_audio_callback ==
    /\ _stream = "started"
    /\ callback.pc = "-"
    /\ Len(audio_queue) < MaxChunks
    /\ is_recording
    /\ callback' = [pc |-> "put",
                    chunk |-> [call |-> recorder.calls,
                               busy |-> state \in {"PROCESSING", "SPEAKING"}]]
    /\ UNCHANGED <<audio_queue, is_recording, _stream, device, recorder>>
    /\ UNCHANGED <<memory, store, health, state, pc, ctl, _crash_count, transcript, answer,
                   response, config, llm, exceptions, turn, route_log, chat_hist, vad>>

\* _audio_callback, line 35: the put on the queue, which has no maxsize
put ==
    /\ callback.pc = "put"
    /\ audio_queue' = Append(audio_queue, callback.chunk)
    /\ callback' = Outside
    /\ UNCHANGED <<is_recording, _stream, device, recorder>>
    /\ UNCHANGED <<memory, store, health, state, pc, ctl, _crash_count, transcript, answer,
                   response, config, llm, exceptions, turn, route_log, chat_hist, vad>>

\* start_recording, line 62: the flag is set first
start_recording ==
    /\ recorder.pc = "-"
    /\ recorder.calls < MaxStarts
    /\ is_recording' = TRUE
    /\ recorder' = [pc |-> "drain", calls |-> recorder.calls + 1,
                    after_stop |-> (recorder.calls > 0 /\ ~is_recording)]
    /\ UNCHANGED <<audio_queue, _stream, device, callback>>
    /\ UNCHANGED <<memory, store, health, state, pc, ctl, _crash_count, transcript, answer,
                   response, config, llm, exceptions, turn, route_log, chat_hist, vad>>

\* start_recording, lines 64-68: one pass of the loop that empties the queue,
\* or its end
drain ==
    /\ recorder.pc = "drain"
    /\ IF audio_queue # <<>>
       THEN /\ audio_queue' = Tail(audio_queue)
            /\ UNCHANGED recorder
       ELSE /\ recorder' = [recorder EXCEPT !.pc = "-"]
            /\ UNCHANGED audio_queue
    /\ UNCHANGED <<is_recording, _stream, device, callback>>
    /\ UNCHANGED <<memory, store, health, state, pc, ctl, _crash_count, transcript, answer,
                   response, config, llm, exceptions, turn, route_log, chat_hist, vad>>

\* stop_recording, lines 70-72
stop_recording ==
    /\ recorder.pc = "-"
    /\ is_recording' = FALSE
    /\ UNCHANGED <<audio_queue, _stream, device, callback, recorder>>
    /\ UNCHANGED <<memory, store, health, state, pc, ctl, _crash_count, transcript, answer,
                   response, config, llm, exceptions, turn, route_log, chat_hist, vad>>

\* get_audio_chunk, lines 74-79, called by the session loop: the head of the
\* queue (an empty queue gives None and changes nothing)
get_audio_chunk ==
    /\ audio_queue # <<>>
    /\ audio_queue' = Tail(audio_queue)
    /\ UNCHANGED <<is_recording, _stream, device, callback, recorder>>
    /\ UNCHANGED <<memory, store, health, state, pc, ctl, _crash_count, transcript, answer,
                   response, config, llm, exceptions, turn, route_log, chat_hist, vad>>

(***************************************************************************)
(* The session loop as the consumer of the audio queue.                    *)
(***************************************************************************)
\* the audio source as initialize() leaves it: the stream is started and
\* recording is enabled, chunks being produced from then on
Capturing ==
    /\ audio_queue = <<>>
    /\ is_recording = TRUE
    /\ _stream = "started"
    /\ device = [open |-> 1, call |-> "start_stream", result |-> "returned"]
    /\ callback = Outside
    /\ recorder = [pc |-> "-", calls |-> 0, after_stop |-> FALSE]

\* _process_state in IDLE, lines 115-121, the chunk being the head of the
\* queue (None when the queue stays empty for the timeout)
idle_chunk ==
    /\ pc = "loop" /\ _running /\ state = "IDLE"
    /\ IF audio_queue = <<>>
       THEN /\ Reset([NewTurn EXCEPT !.polled = "None"])
            /\ UNCHANGED <<audio_queue, _wake_triggered, state>>
       ELSE /\ audio_queue' = Tail(audio_queue)
            /\ Reset([NewTurn EXCEPT !.polled = "chunk"])
            /\ \E detected \in BOOLEAN :
                  IF WakeUp(TRUE, detected)
                  THEN /\ _wake_triggered' = FALSE
                       /\ _transition("WAKE")
                  ELSE UNCHANGED <<_wake_triggered, state>>
    /\ UNCHANGED <<pc, _running, _crash_count, config, llm, memory, exceptions>>
    /\ UNCHANGED <<is_recording, _stream, device, callback, recorder>>
    /\ UNCHANGED <<vad, store, health>>

\* one pass of the loop of listen_with_vad, stt.py:95-113, the chunk being
\* the head of the queue (None when the queue stays empty for the timeout)
listen_chunk ==
    /\ pc = "listen" /\ Listening(elapsed)
    /\ IF audio_queue = <<>>
       THEN /\ elapsed' = elapsed + ChunkTimeout
            /\ UNCHANGED <<audio_queue, _audio_buffer, speech_samples, silence_samples,
                           has_speech, pc>>
       ELSE /\ audio_queue' = Tail(audio_queue)
            /\ elapsed' = elapsed + 1
            /\ \E chunk \in {"speech", "silence"} :
                  /\ _audio_buffer' = Append(_audio_buffer, chunk)
                  /\ IF chunk = "speech"
                     THEN /\ speech_samples' = speech_samples + 1
                          /\ silence_samples' = 0
                          /\ has_speech' =
                                (has_speech \/ speech_samples' >= min_speech_threshold)
                          /\ UNCHANGED pc
                     ELSE IF Counted
                     THEN /\ silence_samples' = silence_samples + 1
                          /\ pc' = IF silence_samples' >= silence_threshold
                                   THEN "listened" ELSE "listen"
                          /\ UNCHANGED <<speech_samples, has_speech>>
                     ELSE UNCHANGED <<speech_samples, silence_samples, has_speech, pc>>
    /\ UNCHANGED <<state, ctl, _crash_count, transcript, answer, response, config, llm,
                   memory, exceptions, turn, route_log, chat_hist>>
    /\ UNCHANGED <<is_recording, _stream, device, callback, recorder>>
    /\ UNCHANGED <<store, health>>

\* _process_speech, main.py:140-180, seen from the queue: it takes no chunk;
\* the audio is rejected (IDLE) or answered (SPEAKING)
process_speech ==
    /\ pc = "transcribe"
    /\ CloseWindow
    /\ \E rejected \in BOOLEAN :
          IF rejected
          THEN /\ _transition("IDLE")
               /\ pc' = "loop"
          ELSE /\ _transition("SPEAKING")
               /\ pc' = "speak"
    /\ UNCHANGED <<ctl, _crash_count, transcript, answer, response, config, llm, memory,
                   exceptions, turn, route_log, chat_hist>>
    /\ UNCHANGED <<store, others>>

\* _process_speech, main.py:182-193, seen from the queue: the answer is
\* spoken, no chunk being taken, and the session listens again or goes idle
spoken ==
    /\ pc = "speak"
    /\ \E continue \in BOOLEAN :
          _transition(IF continue THEN "LISTENING" ELSE "IDLE")
    /\ pc' = "loop"
    /\ UNCHANGED <<ctl, _crash_count, transcript, answer, response, config, llm, memory,
                   exceptions, turn, route_log, chat_hist>>
    /\ UNCHANGED <<vad, store, others>>

(***************************************************************************)
(* HealthMonitor: the loop thread's heartbeat and crash log, and the       *)
(* watchdog thread.                                                        *)
(***************************************************************************)
\* the rest of the model, which the monitor does not touch
beyond_health == <<_wake_triggered, transcript, answer, response, config, llm, exceptions,
                   turn, route_log, chat_hist, vad, memory, store, audio>>

\* run, line 103: HealthMonitor.heartbeat at the start of an iteration
heartbeat ==
    /\ pc = "loop" /\ _running
    /\ last_heartbeat' = clock
    /\ pc' = "step"
    /\ UNCHANGED <<state, _running, _crash_count, clock, warnings, streak, slept>>
    /\ UNCHANGED beyond_health

\* run, line 104: _process_state returns, having left the session in some state
_process_state ==
    /\ pc = "step"
    /\ \E s \in States : _transition(s)
    /\ streak' = 0
    /\ slept' = FALSE
    /\ pc' = "loop"
    /\ UNCHANGED <<_running, _crash_count, clock, last_heartbeat, warnings>>
    /\ UNCHANGED beyond_health

\* log_crash, line 61
TooManyCrashes(n) == n > CrashLimit

\* run, lines 105-108: _process_state raises; log_crash counts the crash and
\* sleeps when the count is over the limit, and the session goes to IDLE
_process_state_raises ==
    /\ pc = "step"
    /\ _crash_count < MaxLogged
    /\ log_crash
    /\ slept' = TooManyCrashes(_crash_count')
    /\ streak' = streak + 1
    /\ _transition("IDLE")
    /\ pc' = "loop"
    /\ UNCHANGED <<_running, clock, last_heartbeat, warnings>>
    /\ UNCHANGED beyond_health

\* time passes, one check interval at a time
tick ==
    /\ clock + check_interval <= MaxClock
    /\ clock' = clock + check_interval
    /\ UNCHANGED <<state, pc, _running, _crash_count, last_heartbeat, warnings, streak, slept>>
    /\ UNCHANGED beyond_health

\* a watchdog that resets the session when it finds the loop frozen
_monitor_loop_recovers ==
    /\ clock - last_heartbeat > timeout
    /\ warnings < MaxWarnings
    /\ warnings' = warnings + 1
    /\ state' = "IDLE"
    /\ last_heartbeat' = clock
    /\ UNCHANGED <<pc, _running, _crash_count, clock, streak, slept>>
    /\ UNCHANGED beyond_health

\* _monitor_loop, lines 40-45: one pass of the watchdog that finds the
\* heartbeat too old writes a warning (a pass that does not changes nothing)
_monitor_loop ==
    /\ clock - last_heartbeat > timeout
    /\ warnings < MaxWarnings
    /\ warnings' = warnings + 1
    /\ UNCHANGED <<state, pc, _running, _crash_count, clock, last_heartbeat, streak, slept>>
    /\ UNCHANGED beyond_health

(***************************************************************************)
(* The tray thread.                                                        *)
(***************************************************************************)
\* a trigger_wake that makes the transition itself instead of leaving it to
\* the loop
trigger_wake_transitions ==
    /\ pc # "exit"
    /\ _wake_triggered' = TRUE
    /\ _transition("WAKE")
    /\ UNCHANGED <<pc, _running, _crash_count, transcript, answer, response,
                   config, llm, memory, exceptions, turn, route_log, chat_hist>>
    /\ UNCHANGED <<vad, store, others>>

\* VoiceAssistant.trigger_wake, called by the tray's on_show
trigger_wake ==
    /\ pc # "exit"
    /\ _wake_triggered' = TRUE
    /\ UNCHANGED <<state, pc, _running, _crash_count, transcript, answer, response,
                   config, llm, memory, exceptions, turn, route_log, chat_hist>>
    /\ UNCHANGED <<vad, store, others>>

\* the tray's on_exit, main.py:234-237: shutdown() and then os._exit(0); the
\* process is gone, and of its state the model keeps what the claims read
on_exit ==
    /\ pc \notin {"run", "exit"}
    /\ _running' = FALSE
    /\ pc' = "exit"
    /\ _wake_triggered' = FALSE
    /\ NewIteration
    /\ clients' = {}
    /\ _ollama_available' = "None"
    /\ _lmstudio_available' = "None"
    /\ UNCHANGED <<state, _crash_count, config, memory, exceptions>>
    /\ UNCHANGED <<vad, store, others>>

Next ==
    \/ run
    \/ process_idle
    \/ process_idle_raises
    \/ process_wake
    \/ process_wake_raises
    \/ process_listening
    \/ process_listening_raises
    \/ transcribe
    \/ transcribe_raises
    \/ route_step
    \/ route_raises
    \/ chat
    \/ speak
    \/ speak_raises
    \/ trigger_wake
    \/ on_exit

Spec == Init /\ [][Next]_vars

(***************************************************************************)
(* A conversation from the first listening window on, with the windows     *)
(* taken step by step; the loop thread is scheduled as long as it can run. *)
(***************************************************************************)
ListenInit ==
    /\ state = "LISTENING"
    /\ pc = "loop"
    /\ _running = TRUE
    /\ Fresh
    /\ LeftWindow
    /\ db = Sound

ListenNext ==
    \/ listen_start
    \/ listen_iteration
    \/ listen_return
    \/ listen_raises
    \/ transcribe
    \/ transcribe_raises
    \/ route_step
    \/ route_raises
    \/ chat
    \/ speak
    \/ speak_raises

ListenSpec ==
    /\ ListenInit
    /\ [][ListenNext]_vars
    /\ WF_vars(listen_iteration)
    /\ WF_vars(listen_return)

(***************************************************************************)
(* Claims about the session loop.                                          *)
(***************************************************************************)
\* C1: every change of the session state is IDLE->WAKE, WAKE->LISTENING,
\* LISTENING->PROCESSING, LISTENING->IDLE, PROCESSING->SPEAKING,
\* SPEAKING->LISTENING or SPEAKING->IDLE, or PROCESSING->IDLE on a rejected
\* transcript, or the reset to IDLE that follows a caught exception (one more
\* exception, one more logged crash); no other change happens.
C1_Transitions ==
    [][state' # state =>
         \/ <<state, state'>> \in
              {<<"IDLE", "WAKE">>, <<"WAKE", "LISTENING">>,
               <<"LISTENING", "PROCESSING">>, <<"LISTENING", "IDLE">>,
               <<"PROCESSING", "SPEAKING">>, <<"SPEAKING", "LISTENING">>,
               <<"SPEAKING", "IDLE">>}
         \/ /\ state = "PROCESSING" /\ state' = "IDLE"
            /\ turn'.transcribed
            /\ text' = <<>> \/ confidence' < ConfidenceFloor
         \/ /\ state' = "IDLE"
            /\ exceptions' = exceptions + 1
            /\ _crash_count' = _crash_count + 1]_vars

\* C1 witness: after a crash was recovered, a turn went through SPEAKING and
\* the session is back in LISTENING for the follow-up.
C1_Witness ==
    /\ state = "LISTENING"
    /\ turn.spoke
    /\ should_continue
    /\ _crash_count > 0

\* C2: whenever the session is in PROCESSING with a transcript whose text is
\* non-empty and whose confidence is at or above the floor, the next session
\* state is SPEAKING, whatever the handlers and the chat backends do.
C2_ValidTranscriptIsAnswered ==
    [][(/\ state = "PROCESSING"
        /\ turn.transcribed
        /\ text # <<>>
        /\ confidence >= ConfidenceFloor
        /\ state' # state) => state' = "SPEAKING"]_vars

\* C3: an utterance whose transcript has empty text or a confidence below the
\* floor takes the session from PROCESSING (entered from LISTENING) to IDLE,
\* and in that cycle route is not called, chat is not called, no backend is
\* invoked, nothing is spoken and the conversation store is not written.
C3_RejectedTranscript ==
    /\ [](turn.transcribed /\ (text = <<>> \/ confidence < ConfidenceFloor) =>
            /\ state = "IDLE"
            /\ pc \in {"loop", "exit"}
            /\ ~turn.routed /\ ~route_log.called
            /\ ~turn.chatted /\ tried = <<>>
            /\ ~turn.spoke
            /\ ~turn.wrote)
    /\ [][(/\ ~turn.transcribed /\ turn'.transcribed
           /\ text' = <<>> \/ confidence' < ConfidenceFloor) =>
            /\ state = "PROCESSING"
            /\ state' = "IDLE"
            /\ pc' = "loop"
            /\ memory' = memory]_vars

\* C3 witness: a transcript with text but a confidence just under the floor
\* was rejected and the loop is back in IDLE.
C3_Witness ==
    /\ turn.transcribed
    /\ text # <<>>
    /\ confidence = ConfidenceFloor - 1
    /\ state = "IDLE"
    /\ pc = "loop"

\* C4: an exception raised while a state is processed is caught by the loop:
\* the crash counter grows by exactly one, the state becomes IDLE, and the
\* loop keeps running (the running flag stays set and the thread is back at
\* the top of the loop, not in shutdown).
C4_ExceptionIsRecovered ==
    [][exceptions' # exceptions =>
         /\ exceptions' = exceptions + 1
         /\ _crash_count' = _crash_count + 1
         /\ state' = "IDLE"
         /\ _running /\ _running'
         /\ pc' = "loop"]_vars

\* C4 witness: after an exception was recovered the loop went on and woke
\* again.
C4_Witness ==
    /\ exceptions > 0
    /\ _crash_count = exceptions
    /\ _running
    /\ state = "WAKE"

(***************************************************************************)
(* Claims about LLMRouter.chat.                                            *)
(***************************************************************************)
\* C5: a call of chat returns a non-empty string, and when no backend gave a
\* result it returns the fixed apology string.
C5_ChatReturnsText ==
    turn.chatted =>
        /\ chat_returned.kind = "str"
        /\ chat_returned.text # <<>>
        /\ response = None => chat_returned = Str(Apology)

\* C6: chat invokes the backends in the order Ollama, LM Studio, Groq, Nvidia,
\* OpenRouter, Gemini and stops at the first one that returns a non-empty
\* text, whose text it returns; a backend that raises or returns an empty
\* result has failed, and the chain then goes on to every configured backend
\* after it, ending with the apology when none succeeded.
C6_FirstSuccessInOrder ==
    turn.chatted =>
        LET Pos(b) == CHOOSE i \in 1..Len(Backends) : Backends[i] = b
            Succeeded == /\ tried # <<>>
                         /\ last_out.kind = "text"
                         /\ last_out.text # <<>>
        IN  /\ \A i \in 1..Len(tried) : \A j \in 1..Len(tried) :
                  i < j => Pos(tried[i]) < Pos(tried[j])
            /\ IF Succeeded
               THEN chat_returned = Str(last_out.text)
               ELSE /\ chat_returned = Str(Apology)
                    /\ \A b \in clients : \E i \in 1..Len(tried) : tried[i] = b

\* C7: a call of chat appends to the store exactly the user message and then
\* the assistant's result when a backend succeeded (returned a non-empty
\* text), appends nothing when every backend failed and the apology is
\* returned, and the apology is never a stored message.
C7_ExchangeStored ==
    /\ [](\A i \in 1..Len(memory) : memory[i].content # Apology)
    /\ [][(~turn.chatted /\ turn'.chatted) =>
            IF tried' # <<>> /\ last_out'.kind = "text" /\ last_out'.text # <<>>
            THEN memory' = memory \o
                    <<[role |-> "user", content |-> text],
                      [role |-> "assistant", content |-> chat_returned'.text]>>
            ELSE memory' = memory]_vars

(***************************************************************************)
(* Claims about SkillRouter.route.                                         *)
(***************************************************************************)
\* C8: one call of route invokes at most one handler; when the handler found
\* by the keyword scan returns None or raises, route returns None, and a call
\* that invoked the keyword-matched handler invoked no other handler and did
\* not run the classification phase.
C8_AtMostOneHandler ==
    route_log.called =>
        /\ Len(route_log.invoked) <= 1
        /\ route_log.keyword # 0 =>
              /\ route_log.invoked = <<skills[route_log.keyword].name>>
              /\ ~route_log.classified
              /\ route_log.handled \in {"None", "raise"} => route_log.result = None

\* C8 witness: the keyword-matched handler raised, route returned None, and
\* the session went on to the chat call.
C8_Witness ==
    /\ route_log.called
    /\ route_log.keyword # 0
    /\ route_log.handled = "raise"
    /\ ~route_log.raised
    /\ pc = "chat"

\* C9: the handler the keyword phase invokes is the first handler, in
\* registration order, one of whose keywords occurs in the input text when
\* letter case is ignored; the classification phase runs only when no
\* registered handler has such a keyword, and whenever route returns and some
\* handler has one, the keyword phase is what chose the handler.
C9_FirstKeywordMatch ==
    route_log.called =>
        LET t == route_log.text
            Occurs(kw) ==
                \E off \in 0..(Len(t) - Len(kw)) :
                    \A j \in 1..Len(kw) : LowerChar(kw[j]) = LowerChar(t[off + j])
            KeywordOf(i) == \E kw \in skills[i].keywords : Occurs(kw)
        IN  /\ route_log.keyword # 0 =>
                  /\ KeywordOf(route_log.keyword)
                  /\ \A j \in 1..(route_log.keyword - 1) : ~KeywordOf(j)
                  /\ route_log.invoked = <<skills[route_log.keyword].name>>
            /\ route_log.classified => \A i \in 1..Len(skills) : ~KeywordOf(i)
            /\ (~route_log.raised /\ \E i \in 1..Len(skills) : KeywordOf(i)) =>
                  route_log.keyword # 0

\* C9 witness: "Google the time" matches a keyword of both registered
\* handlers (one only when case is ignored), and the first registered, web,
\* was invoked.
C9_Witness ==
    /\ route_log.called
    /\ skills = <<WebSkill, TimeSkill>>
    /\ route_log.text = <<"G", "o", "o", "g", "l", "e", " ", "t", "h", "e", " ", "t", "i", "m", "e">>
    /\ route_log.keyword = 1
    /\ route_log.invoked = <<WebSkill.name>>

\* C10: route never raises, whatever handlers load_skills registered, and a
\* routed turn in which no handler answered goes on to the chat call.
C10_RouteNeverRaises ==
    turn.routed =>
        /\ ~route_log.raised
        /\ Truthy(route_log.result) \/ pc = "chat" \/ turn.chatted

MemoryInit ==
    /\ state = "IDLE"
    /\ pc = "run"
    /\ _running = FALSE
    /\ Fresh
    /\ NoWindow
    /\ skills = <<>>
    /\ db \in {[file |-> f, open |-> FALSE] : f \in {"ok", "corrupt"}}

MemoryNext ==
    \/ _init_db
    \/ \E t \in Threads :
        \/ call_add(t)
        \/ call_add_exchange(t)
        \/ call_clear(t)
        \/ acquire(t)
        \/ insert(t)
        \/ delete(t)
        \/ call_get_recent(t)

MemorySpec == MemoryInit /\ [][MemoryNext]_vars

(***************************************************************************)
(* AudioManager alone, with its threads.                                   *)
(***************************************************************************)
AudioInit ==
    /\ state = "IDLE"
    /\ pc = "run"
    /\ _running = FALSE
    /\ Fresh
    /\ NoWindow
    /\ skills = <<>>
    /\ db = Sound

AudioNext ==
    \/ start_stream
    \/ stop_stream
    \/ _audio_callback
    \/ put
    \/ start_recording
    \/ drain
    \/ stop_recording
    \/ get_audio_chunk

AudioSpec == AudioInit /\ [][AudioNext]_vars

(***************************************************************************)
(* The loop of run with the health monitor, after initialize has started   *)
(* the watchdog.                                                           *)
(***************************************************************************)
HealthInit ==
    /\ state = "IDLE"
    /\ pc = "loop"
    /\ _running = TRUE
    /\ Fresh
    /\ NoWindow
    /\ skills = <<>>
    /\ db = Sound

HealthNext ==
    \/ heartbeat
    \/ _process_state
    \/ _process_state_raises
    \/ tick
    \/ _monitor_loop

HealthSpec == HealthInit /\ [][HealthNext]_vars

(***************************************************************************)
(* The session loop with the audio thread that fills its queue.            *)
(***************************************************************************)
CaptureInit ==
    /\ state = "IDLE"
    /\ pc = "loop"
    /\ _running = TRUE
    /\ _wake_triggered = FALSE
    /\ _crash_count = 0
    /\ text = <<>>
    /\ confidence = 0
    /\ final_text = <<>>
    /\ should_continue = FALSE
    /\ response = None
    /\ skills = <<>>
    /\ keys = {}
    /\ clients = {}
    /\ _ollama_available = "None"
    /\ _lmstudio_available = "None"
    /\ memory = <<>>
    /\ exceptions = 0
    /\ turn = NewTurn
    /\ route_log = NoRoute
    /\ tried = <<>>
    /\ last_out = NoOut
    /\ chat_returned = None
    /\ NoWindow
    /\ stamps = <<>>
    /\ _lock = "None"
    /\ calls = [t \in Threads |-> NoCall]
    /\ db = Sound
    /\ Capturing
    /\ clock = 0
    /\ last_heartbeat = 0
    /\ warnings = 0
    /\ streak = 0
    /\ slept = FALSE

CaptureNext ==
    \/ _audio_callback
    \/ put
    \/ idle_chunk
    \/ process_wake
    \/ listen_start
    \/ listen_chunk
    \/ listen_return
    \/ process_speech
    \/ spoken

CaptureSpec == CaptureInit /\ [][CaptureNext]_vars

(***************************************************************************)
(* Claims about the listening window.                                      *)
(***************************************************************************)
\* C12: whatever chunks arrive or fail to arrive, a window that was entered
\* is left again, and it is never still open once the clock is a full pass
\* of the loop (one wait of at most the timeout, one classification) past
\* max-duration.
C12_ListenReturns ==
    /\ [](pc \in {"listen", "listened"} => elapsed < MaxDuration + ChunkTimeout + 1)
    /\ (pc \in {"listen", "listened"}) ~> (pc \notin {"listen", "listened"})

\* C12 witness: a window in which speech was confirmed and never fell silent
\* was closed by the deadline.
C12_Witness ==
    /\ pc = "transcribe"
    /\ has_speech
    /\ silence_samples = 0
    /\ elapsed >= MaxDuration

\* C13: a window in which speech was never confirmed ends only at
\* max-duration, with None: the session goes from LISTENING to IDLE and the
\* cycle is over with nothing transcribed, routed, chatted or written to the
\* store.
C13_NoSpeech ==
    [][(pc \in {"listen", "listened"} /\ pc' \notin {"listen", "listened"}
        /\ ~has_speech /\ exceptions' = exceptions) =>
            /\ elapsed >= MaxDuration
            /\ state = "LISTENING" /\ state' = "IDLE"
            /\ pc' = "loop"
            /\ ~turn'.transcribed /\ text' = <<>>
            /\ ~turn'.routed /\ ~route_log'.called
            /\ ~turn'.chatted /\ tried' = <<>>
            /\ ~turn'.wrote /\ memory' = memory]_vars

\* C13 witness: a window that saw one speech chunk, too few to confirm
\* speech, ran to the deadline and the session is back in IDLE.
C13_Witness ==
    /\ pc = "loop"
    /\ state = "IDLE"
    /\ exceptions = 0
    /\ ~has_speech
    /\ speech_samples = min_speech_threshold - 1
    /\ elapsed >= MaxDuration

\* C14: with the reminder handler in the registry load_skills built, a route
\* call for "remind me in 5 minutes to check the oven" does not raise, and its
\* keyword phase picks the reminder handler and invokes it.
C14_ReminderIsHandled ==
    (route_log.called /\ route_log.text = RemindMe
     /\ \E i \in 1..Len(skills) : skills[i] = ReminderSkill) =>
        /\ ~route_log.raised
        /\ route_log.keyword # 0
        /\ skills[route_log.keyword] = ReminderSkill
        /\ route_log.invoked = <<ReminderSkill.name>>

\* C15: a pass of the loop in IDLE that finds the manual trigger set takes
\* the session to WAKE and clears the trigger, whether or not an audio chunk
\* arrived and whatever the wake detector said.
C15_ManualWake ==
    [][(pc = "loop" /\ state = "IDLE" /\ _running /\ _wake_triggered
        /\ turn'.polled # "-" /\ pc' = pc /\ exceptions' = exceptions) =>
            /\ state' = "WAKE"
            /\ ~_wake_triggered']_vars

(***************************************************************************)
(* Claims about ConversationMemory.                                        *)
(***************************************************************************)
\* C16: a get_recent(n) with n >= 1 that did not fail returns exactly the
\* min(n, stored) rows added last, in the order in which they were added.
C16_RecentInOrder ==
    [][\A t \in Threads :
          (calls'[t] # calls[t] /\ calls'[t].op = "get_recent"
           /\ calls'[t].n >= 1 /\ ~calls'[t].raised) =>
              LET k == IF calls'[t].n < Len(memory) THEN calls'[t].n ELSE Len(memory)
              IN  calls'[t].result = SubSeq(memory, Len(memory) - k + 1, Len(memory))]_vars

\* C17: when add(role, content) has returned, a get_recent(1) made before
\* any other call returns that role and content, and the rows stored earlier
\* are what they were.
C17_RoundTrip ==
    [][\A t \in Threads :
          (calls[t].op = "add" /\ calls[t].pc = "locked" /\ calls'[t].pc = "done") =>
              /\ get_recent(memory', stamps', 1) = {<<calls[t].msgs[1]>>}
              /\ SubSeq(memory', 1, Len(memory)) = memory]_vars

\* C18: at no moment do two threads hold the store for a mutation; each add
\* that completes has put exactly its one row at the end of the table and
\* left the other rows alone; and every row a concurrent get_recent returns
\* is a whole row of the table.
C18_Concurrent ==
    /\ [](\A t, u \in Threads :
            calls[t].pc = "locked" /\ calls[u].pc = "locked" => t = u)
    /\ [][\A t \in Threads :
            (calls[t].pc = "locked" /\ calls[t].op \in {"add", "add_exchange"}
             /\ calls'[t] # calls[t]) =>
                memory' = Append(memory, calls[t].msgs[Len(calls[t].stored) + 1])]_vars
    /\ [][\A t \in Threads :
            (calls'[t] # calls[t] /\ calls'[t].op = "get_recent") =>
                \A i \in 1..Len(calls'[t].result) :
                    \E j \in 1..Len(memory) : calls'[t].result[i] = memory[j]]_vars

\* C19: an add returns to its caller only with its message committed: the
\* row count has grown by one and the last row is the message.
C19_AcknowledgedIsStored ==
    [][\A t \in Threads :
          (calls[t].op = "add" /\ calls[t].pc = "locked" /\ calls'[t].pc = "done") =>
              /\ Len(memory') = Len(memory) + 1
              /\ memory'[Len(memory')] = calls[t].msgs[1]]_vars

\* C20: when add_exchange returns, either neither of its two messages was
\* stored, or both were and they are the last two rows of the table, the
\* user message directly before the assistant message.
C20_ExchangeIsOneUnit ==
    [][\A t \in Threads :
          (calls[t].op = "add_exchange" /\ calls[t].pc = "locked"
           /\ calls'[t].pc = "done") =>
              \/ /\ calls[t].stored = <<FALSE>>
                 /\ memory' = memory
              \/ /\ calls[t].stored = <<TRUE>>
                 /\ Len(memory') >= 2
                 /\ SubSeq(memory', Len(memory') - 1, Len(memory')) = calls[t].msgs]_vars

\* C21: a ConversationMemory constructed on a database file that sqlite
\* cannot use works as an empty store: get_recent returns no messages, and an
\* add that returns has stored its message as the last row, which
\* get_recent(1) returns.
C21_RebuiltEmpty ==
    [][\A t \in Threads :
          db.file = "corrupt" =>
              /\ (calls'[t] # calls[t] /\ calls'[t].op = "get_recent" /\ memory = <<>>) =>
                    calls'[t].result = <<>>
              /\ (calls[t].op = "add" /\ calls[t].pc = "locked" /\ calls'[t].pc = "done") =>
                    /\ memory' = Append(memory, calls[t].msgs[1])
                    /\ <<calls[t].msgs[1]>> \in get_recent(memory', stamps', 1)]_vars

\* C29: when clear() returns the table is empty: the row count is 0 and
\* get_recent(n) returns the empty list for every n.
C29_ClearEmpties ==
    [][\A t \in Threads :
          (calls[t].op = "clear" /\ calls[t].pc = "locked" /\ calls'[t].pc = "done") =>
              /\ Len(memory') = 0
              /\ \A n \in 0..MaxRows : get_recent(memory', stamps', n) = {<<>>}]_vars

\* C28: a turn that leaves SPEAKING because speak_streaming returned has
\* spoken its final text.
C28_AlwaysSpoken ==
    [][(state = "SPEAKING" /\ state' # state /\ exceptions' = exceptions) =>
            turn'.spoke]_vars

\* C27: while the transcription, routing or chat call of a turn is
\* outstanding the session is in PROCESSING, and a step that is not the
\* return of that call leaves the session state alone; setting the wake
\* trigger changes no session state, and as long as the process lives the
\* trigger is consumed only by the step from IDLE to WAKE.
C27_ProcessingNotInterrupted ==
    /\ [](pc \in {"transcribe", "route", "chat"} => state = "PROCESSING")
    /\ [][/\ (pc \in {"transcribe", "route", "chat"} /\ pc' = pc) => state' = state
          /\ (~_wake_triggered /\ _wake_triggered') => state' = state
          /\ (_wake_triggered /\ ~_wake_triggered' /\ pc' # "exit") =>
                (state = "IDLE" /\ state' = "WAKE")]_vars

\* C27 witness: the trigger was set while the chat call of a turn is
\* outstanding, and the session is still in PROCESSING.
C27_Witness ==
    /\ pc = "chat"
    /\ state = "PROCESSING"
    /\ _wake_triggered
    /\ turn.routed

\* C25: a turn whose response asked for continuation goes from SPEAKING
\* straight to LISTENING, the window that follows is opened without the wake
\* detector having been polled, and that window is never still open a full
\* pass of the loop beyond the response's follow-up timeout.
C25_FollowUpWindow ==
    /\ [][(state = "SPEAKING" /\ state' # state /\ exceptions' = exceptions
           /\ route_log.result.kind = "SkillResponse"
           /\ route_log.result.continue_listening) => state' = "LISTENING"]_vars
    /\ [](pc = "listen" /\ turn.followup =>
            /\ turn.polled = "-"
            /\ elapsed < DefaultTimeout + ChunkTimeout + 1)

(***************************************************************************)
(* Claims about AudioManager.                                              *)
(***************************************************************************)
\* C22: the queue holds fewer chunks than the number at which the model
\* stops the producer, in every reachable state: some capacity below that
\* number is never exceeded.
C22_QueueBounded == Len(audio_queue) < MaxChunks

\* C23: the callback enqueues only a chunk it received while recording was
\* on, and when a start_recording that followed a stop_recording has
\* returned, every chunk in the queue was produced after that call began.
C23_NoStaleAudio ==
    /\ [][callback.pc = "-" /\ callback'.pc = "put" => is_recording]_vars
    /\ [](recorder.pc = "-" /\ recorder.after_stop =>
            \A i \in 1..Len(audio_queue) : audio_queue[i].call >= recorder.calls)

\* C24: whatever start_stream and stop_stream calls are made, at most one
\* stream is open on the device and it is the one whose handle is held; a
\* stop_stream on a source that holds no stream returns and changes nothing;
\* and when stop_stream has returned no handle is held and no stream is open.
C24_OneStream ==
    /\ [](device.open <= 1 /\ (device.open = 1 <=> _stream # "None"))
    /\ [](device.call = "stop_stream" /\ device.result = "returned" =>
            _stream = "None" /\ device.open = 0)
    /\ [][(_stream = "None" /\ device'.call = "stop_stream" /\ device' # device) =>
            /\ device'.result = "returned"
            /\ device'.open = device.open
            /\ _stream' = "None"]_vars

\* C24 witness: start_stream was called on a source that was already
\* started and returned with the one stream still open.
C24_Witness ==
    /\ device.call = "start_stream"
    /\ device.result = "returned"
    /\ _stream = "started"
    /\ device.open = 1
    /\ audio_queue # <<>>

(***************************************************************************)
(* Claims about HealthMonitor.                                             *)
(***************************************************************************)
\* C26: log_crash sleeps only when more than five crashes have occurred in a
\* row, with no successful iteration between them.
C26_CooldownAfterStreak == slept => streak > CrashLimit

\* C30: a pass of the watchdog that writes a warning found the heartbeat
\* older than the timeout and leaves the session state, the running flag,
\* the crash counter and the last heartbeat as they were; and every
\* iteration of the loop begins by recording the heartbeat.
C30_WatchdogObserves ==
    /\ [][warnings' # warnings =>
            /\ clock - last_heartbeat > timeout
            /\ UNCHANGED <<state, pc, _running, _crash_count, last_heartbeat>>]_vars
    /\ [][pc = "loop" /\ pc' # pc => last_heartbeat' = clock]_vars
    /\ [](pc = "step" => last_heartbeat <= clock)

\* C30 witness: the watchdog has written its warning about a loop frozen in
\* the middle of an iteration.
C30_Witness == warnings > 0 /\ pc = "step" /\ _crash_count > 0

(***************************************************************************)
(* Claims about the counters and the buffer of a listening window.         *)
(***************************************************************************)
\* the longest run of consecutive speech chunks in a sequence of chunks
RECURSIVE SpeechRun(_, _, _)
SpeechRun(b, len, best) ==
    IF b = <<>> THEN best
    ELSE IF Head(b) = "speech"
         THEN SpeechRun(Tail(b), len + 1, IF len + 1 > best THEN len + 1 ELSE best)
         ELSE SpeechRun(Tail(b), 0, best)

\* the silence chunks at the end of a sequence of chunks
RECURSIVE TrailingSilence(_)
TrailingSilence(b) ==
    IF b = <<>> \/ b[Len(b)] # "silence" THEN 0
    ELSE 1 + TrailingSilence(SubSeq(b, 1, Len(b) - 1))

\* C31: whenever speech is confirmed in a window, the chunks of the window
\* contain a run of consecutive speech chunks as long as the minimum-speech
\* threshold.
C31_ConsecutiveSpeech ==
    (pc \in {"listen", "listened"} /\ has_speech) =>
        SpeechRun(_audio_buffer, 0, 0) >= min_speech_threshold

\* C32: in a window the silence count is zero until speech is confirmed and
\* from then on is the number of silence chunks since the last speech chunk;
\* the loop goes on while that count is below the silence threshold and is
\* left at the chunk that makes the count reach it.
C32_SilenceEndsWindow ==
    /\ [](pc \in {"listen", "listened"} =>
            /\ silence_samples = IF has_speech THEN TrailingSilence(_audio_buffer) ELSE 0
            /\ (pc = "listen") = (silence_samples < silence_threshold))
    /\ [][(pc = "listen" /\ pc' = "listened") =>
            /\ _audio_buffer' = Append(_audio_buffer, "silence")
            /\ has_speech
            /\ silence_samples' = silence_threshold]_vars

\* C32 witness: the window was ended by silence after confirmed speech.
C32_Witness ==
    /\ pc = "listened"
    /\ has_speech
    /\ silence_samples = silence_threshold
    /\ Len(_audio_buffer) > silence_threshold

\* C33: a window starts with an empty buffer; every chunk taken from the
\* queue is appended to it, whatever its classification (only a pass whose
\* get_audio_chunk timed out leaves buffer and counters as they were); and
\* the buffer is handed on unchanged when the window returns audio.
C33_BufferIsTheWindow ==
    /\ [][(pc = "loop" /\ pc' = "listen") => _audio_buffer' = <<>>]_vars
    /\ [][(pc = "listen" /\ pc' \in {"listen", "listened"} /\ exceptions' = exceptions) =>
            \/ \E c \in {"speech", "silence"} : _audio_buffer' = Append(_audio_buffer, c)
            \/ /\ UNCHANGED <<_audio_buffer, speech_samples, silence_samples, has_speech>>
               /\ elapsed' = elapsed + ChunkTimeout]_vars
    /\ [][(pc \in {"listen", "listened"} /\ pc' = "transcribe") =>
            /\ _audio_buffer' = _audio_buffer
            /\ _audio_buffer # <<>>]_vars
    /\ [](pc \in {"listen", "listened"} => Len(_audio_buffer) <= elapsed)

\* C33 witness: audio is about to be transcribed whose first chunk is a
\* silence chunk taken before any speech.
C33_Witness ==
    /\ pc = "transcribe"
    /\ Len(_audio_buffer) > min_speech_threshold
    /\ _audio_buffer[1] = "silence"

(***************************************************************************)
(* Claims about the audio the session consumes.                            *)
(***************************************************************************)
\* C34: a chunk the session takes from the queue, to hand it to the wake
\* detector (IDLE) or to the endpoint detector (LISTENING), was not produced
\* while the session was in PROCESSING or SPEAKING.
C34_NoStaleChunk ==
    [][(audio_queue # <<>> /\ audio_queue' = Tail(audio_queue)) =>
          ~Head(audio_queue).busy]_vars

(***************************************************************************)
(* Claims about the classification phase of route.                         *)
(***************************************************************************)
\* C35: when route is about to run on a registry of BaseSkill handlers,
\* every answer of the classifier gives the handler that the answer names
\* once surrounding whitespace, letter case, quotes and punctuation are
\* removed, and None when that names no handler, when it is "general", or
\* when the classifier raised.
C35_NormalisedAnswer ==
    (pc = "route" /\ \A i \in 1..Len(skills) : skills[i].base) =>
        \A ans \in ClassifierOutcomes :
            LET named == IF ans.raised THEN <<>>
                         ELSE strip(remove(remove(remove(lower(strip(ans.raw)),
                                                         "\""), "'"), "."))
            IN  _llm_classify(ans) =
                   IF ~ans.raised /\ named # General /\ named \in SkillNames
                   THEN Str(named) ELSE None

(***************************************************************************)
(* Claims about the messages of a chat.                                    *)
(***************************************************************************)
\* C36: in every call of chat, each backend the call tries is handed exactly
\* one possible message list: the system prompt, the last min(max_history,
\* stored) rows of the store in insertion order, and the user message once
\* at the end.
C36_MessagesHanded ==
    [][(pc = "chat" /\ pc' # pc /\ exceptions' = exceptions) =>
          LET k == IF max_history < Len(memory) THEN max_history ELSE Len(memory)
              expected == <<SystemMessage>>
                          \o SubSeq(memory, Len(memory) - k + 1, Len(memory))
                          \o <<[role |-> "user", content |-> text]>>
          IN  \A i \in 1..Len(tried') :
                 Handed(tried'[i], memory, text) = {expected}]_vars

\* C37: get_recent(n) returns at most n messages, for n = 0 as well.
C37_AtMostN ==
    [][\A t \in Threads :
          (calls'[t] # calls[t] /\ calls'[t].op = "get_recent") =>
              Len(calls'[t].result) <= calls'[t].n]_vars

\* C38: when chat is about to run with Gemini as the only configured
\* backend and no earlier backend has answered, then whatever non-empty text
\* the Gemini engine returns is the response of _chat_gemini and what chat
\* returns.
C38_GeminiAnswers ==
    (pc = "chat" /\ keys = {"gemini"}) =>
        \A out \in BackendOutcomes :
            (out.kind = "text" /\ out.text # <<>>) =>
                LET s == _chat_gemini(ChainStart, clients \cup keys, out)
                IN  /\ s.tried = <<"gemini">>
                    /\ Returned(s.response) = Str(out.text)

(***************************************************************************)
(* Claims about who writes the store in a turn.                            *)
(***************************************************************************)
\* C39: the store changes only in the step in which chat returns a response
\* of a backend; chat is called only when route returned nothing (None or an
\* empty string); and a turn that a handler answered reaches SPEAKING without
\* having written to the store.
C39_SkillTurnKeepsStore ==
    /\ [][memory' # memory =>
            (pc = "chat" /\ turn'.chatted /\ response' # None)]_vars
    /\ [][(pc = "chat" /\ ~turn.chatted /\ turn'.chatted) =>
            \/ route_log.result.kind = "None"
            \/ (route_log.result.kind = "str" /\ route_log.result.text = <<>>)]_vars
    /\ [](pc = "speak" /\ turn.routed /\ ~turn.chatted => ~turn.wrote)

\* C39 witness: a handler's SkillResponse is about to be spoken while the
\* store holds what an earlier chat appended.
C39_Witness ==
    /\ pc = "speak"
    /\ turn.routed /\ ~turn.chatted
    /\ route_log.result.kind = "SkillResponse"
    /\ memory # <<>>

(***************************************************************************)
(* Claims about the availability caches of the local backends.             *)
(***************************************************************************)
\* C40: as long as the process lives, an availability cache that holds
\* False holds False ever after; a
\* call of chat made while the cache of a local backend holds False does not
\* invoke that backend; and a call in which a local backend raised leaves its
\* cache at False.
C40_UnavailableStays ==
    /\ [][pc' # "exit" =>
            /\ _ollama_available = "False" => _ollama_available' = "False"
            /\ _lmstudio_available = "False" => _lmstudio_available' = "False"]_vars
    /\ [][(pc = "chat" /\ ~turn.chatted /\ turn'.chatted) =>
            /\ _ollama_available = "False" =>
                  \A i \in 1..Len(tried') : tried'[i] # "ollama"
            /\ _lmstudio_available = "False" =>
                  \A i \in 1..Len(tried') : tried'[i] # "lmstudio"
            /\ (tried' # <<>> /\ last_out'.kind = "raise"
                /\ tried'[Len(tried')] = "ollama") => _ollama_available' = "False"
            /\ (tried' # <<>> /\ last_out'.kind = "raise"
                /\ tried'[Len(tried')] = "lmstudio") => _lmstudio_available' = "False"]_vars

\* C40 witness: a chat has been answered by the first online backend, both
\* local backends being cached unavailable.
C40_Witness ==
    /\ turn.chatted
    /\ _ollama_available = "False"
    /\ _lmstudio_available = "False"
    /\ tried = <<"groq">>
    /\ last_out.kind = "text"

====
